---- MODULE Spec2Model ----
(***************************************************************************)
(* Model of examples/fastapi-app: a FastAPI process (main.py) that hands   *)
(* work to Celery workers (tasks.py) through one Redis instance that is    *)
(* both the broker (message queue) and the result backend, plus the beat   *)
(* schedule that submits tasks.periodic_cleanup_task every 86400 seconds.  *)
(*                                                                         *)
(* The Celery calls the source makes are modelled by what they do under    *)
(* the configuration of tasks.py lines 10-23 (everything else default):    *)
(*   - Task.delay() draws a fresh id and publishes one message; it writes  *)
(*     nothing to the result backend;                                      *)
(*   - a worker takes a message off the queue (acknowledged before the     *)
(*     body runs), runs the body and stores SUCCESS with the return value  *)
(*     or FAILURE with the exception (the STARTED state is not tracked);   *)
(*   - AsyncResult(id).status is the stored state, or PENDING when the     *)
(*     backend holds nothing for the id;                                   *)
(*   - stored results expire from the backend.                             *)
(***************************************************************************)
EXTENDS Integers, Sequences, FiniteSets, TLC

\* ---------------------------------------------------------------- bounds
MaxTasks == 2          \* HTTP submissions in one behaviour
NumWorkers == 2        \* worker processes consuming the queue
MaxOutages == 1        \* times Redis becomes unreachable in one behaviour
MaxTime == 345600      \* seconds of beat clock explored (four periods)
TickSeconds == 30000   \* longest sleep of the beat loop between two ticks

\* ------------------------------------------------------- program constants
schedule == 86400      \* beat_schedule['cleanup-every-day']['schedule']
cleaned_items == 42    \* periodic_cleanup_task's return value

Workers == 1..NumWorkers

\* Python's None (JSON null).
None == [none |-> TRUE]

\* An id that delay() never draws ("nonexistent-id"), and the absent id of
\* a response that carries none.
NonexistentId == 0
NoId == -1

\* Bodies of POST /send-email (TaskRequest) and POST /process-data (a dict,
\* kept as its sequence of <<key, value>> items).
TaskRequest ==
    { [email |-> "alice@example.com", message |-> "hi"] }

DataDicts == { << <<"k", 1>>, <<"j", 2>> >> }

\* Names registered by the @celery_app.task decorators.
Registry ==
    { "tasks.send_email_task", "tasks.process_data_task",
      "tasks.periodic_cleanup_task" }

beat_schedule ==
    [task |-> "tasks.periodic_cleanup_task", schedule |-> schedule]

VARIABLES
    redisUp,      \* the Redis instance at localhost:6379 is reachable
    outages,      \* number of outages so far
    queue,        \* broker queue: sequence of task messages
    store,        \* result backend: task id -> [status, result]
    worker,       \* per worker: what it is doing
    nextId,       \* next task id delay() draws
    sent,         \* task id -> the message published for it
    ran,          \* task id -> outcome of its body ("return" / "raise")
    resp,         \* the last HTTP response
    asyncResult,  \* the AsyncResult of the GET /task request in progress
    now,          \* beat clock, seconds
    last_run_at,  \* schedule entry: time of its last firing
    fired,        \* times at which the schedule entry was submitted
    beatUp,       \* the beat process is running
    restart       \* last start of beat after a stop: when, and how long
                  \* the entry had then gone without firing

vars == << redisUp, outages, queue, store, worker, nextId, sent, ran,
           resp, asyncResult, now, last_run_at, fired, beatUp, restart >>

beatVars == << now, last_run_at, fired, beatUp, restart >>

Idle == [state |-> "idle"]

NoResponse == [op |-> "none", task_id |-> NoId, status |-> "", result |-> None]

\* No GET /task request is between its reads.
NoRequest == [id |-> NoId, status |-> "", cache |-> None]

Init ==
    /\ redisUp = TRUE
    /\ outages = 0
    /\ queue = << >>
    /\ store = << >>
    /\ worker = [w \in Workers |-> Idle]
    /\ nextId = 1
    /\ sent = << >>
    /\ ran = << >>
    /\ resp = NoResponse
    /\ asyncResult = NoRequest
    /\ now = 0
    /\ last_run_at = 0
    /\ fired = << >>
    /\ beatUp = TRUE
    /\ restart = [at |-> -1, overdue |-> 0]

\* ------------------------------------------------------------ task bodies
\* Variant: the address and the text are mixed up in the returned value.
send_email_task_swapped(kwargs) ==
    [status |-> "sent", email |-> kwargs.message, message |-> kwargs.email]

send_email_task(kwargs) ==
    [status |-> "sent", email |-> kwargs.email, message |-> kwargs.message]

process_data_task(data, t) ==
    [processed |-> TRUE,
     input_keys |-> [i \in 1..Len(data) |-> data[i][1]],
     timestamp |-> t]

periodic_cleanup_task ==
    [status |-> "completed", cleaned_items |-> cleaned_items]

\* What the registered body returns for a message.
RunBody(msg, t) ==
    CASE msg.task = "tasks.send_email_task" -> send_email_task(msg.args)
      [] msg.task = "tasks.process_data_task" -> process_data_task(msg.args, t)
      [] msg.task = "tasks.periodic_cleanup_task" -> periodic_cleanup_task

\* The exception a body raised, as the backend keeps it.
RaisedException(msg) == [exc_type |-> "Exception", task |-> msg.task]

\* ------------------------------------------------------------ Redis
QueueIds == { queue[i].id : i \in 1..Len(queue) }

RedisDown ==
    /\ redisUp
    /\ outages < MaxOutages
    /\ redisUp' = FALSE
    /\ outages' = outages + 1
    /\ UNCHANGED << queue, store, worker, nextId, sent, ran, resp, asyncResult, beatVars >>

RedisRestore ==
    /\ ~redisUp
    /\ redisUp' = TRUE
    /\ UNCHANGED << outages, queue, store, worker, nextId, sent, ran, resp, asyncResult,
                    beatVars >>

\* ------------------------------------------------------------ producer
\* task.delay(...): draw a fresh id, publish the message on the broker.
\* Nothing is written to the result backend.  With Redis unreachable the
\* publish raises and nothing is enqueued.
\* Variant: a PENDING record is written first and stays behind when the
\* publish fails.
delay_orphan_pending(task, args) ==
    /\ nextId' = nextId + 1
    /\ UNCHANGED << worker, ran, redisUp, outages >>
    /\ IF redisUp
         THEN /\ queue' = Append(queue, [id |-> nextId, task |-> task,
                                         args |-> args])
              /\ sent' = (nextId :> [id |-> nextId, task |-> task,
                                     args |-> args]) @@ sent
              /\ UNCHANGED store
         ELSE /\ store' = (nextId :> [status |-> "PENDING",
                                      result |-> None]) @@ store
              /\ UNCHANGED << queue, sent >>

\* Variant: the message is queued although the publish was reported failed.
delay_ignores_outage(task, args) ==
    /\ nextId' = nextId + 1
    /\ UNCHANGED << store, worker, ran, redisUp, outages >>
    /\ queue' = Append(queue, [id |-> nextId, task |-> task, args |-> args])
    /\ sent' = (nextId :> [id |-> nextId, task |-> task,
                           args |-> args]) @@ sent

\* Variant: the body is run in the calling process and its result stored
\* before the call returns.
delay_eager(task, args) ==
    /\ nextId' = nextId + 1
    /\ UNCHANGED << queue, worker, redisUp, outages >>
    /\ IF redisUp
         THEN /\ sent' = (nextId :> [id |-> nextId, task |-> task,
                                     args |-> args]) @@ sent
              /\ store' = (nextId :>
                             [status |-> "SUCCESS",
                              result |-> RunBody([id |-> nextId, task |-> task,
                                                  args |-> args], now)])
                          @@ store
              /\ ran' = (nextId :> "return") @@ ran
         ELSE /\ UNCHANGED << sent, store, ran >>

delay(task, args) ==
    /\ nextId' = nextId + 1
    /\ UNCHANGED << store, worker, ran, redisUp, outages >>
    /\ IF redisUp
         THEN /\ queue' = Append(queue, [id |-> nextId, task |-> task,
                                         args |-> args])
              /\ sent' = (nextId :> [id |-> nextId, task |-> task,
                                     args |-> args]) @@ sent
         ELSE /\ UNCHANGED << queue, sent >>

\* POST /send-email
send_email(task_request) ==
    /\ nextId <= MaxTasks
    /\ delay("tasks.send_email_task", task_request)
    /\ resp' = IF redisUp
                 THEN [op |-> "submit", task_id |-> nextId,
                       status |-> "queued", result |-> None]
                 ELSE [op |-> "submit", task_id |-> NoId,
                       status |-> "error", result |-> None]
    /\ UNCHANGED << asyncResult, beatVars >>

\* POST /process-data
process_data(data) ==
    /\ nextId <= MaxTasks
    /\ delay("tasks.process_data_task", data)
    /\ resp' = IF redisUp
                 THEN [op |-> "submit", task_id |-> nextId,
                       status |-> "processing", result |-> None]
                 ELSE [op |-> "submit", task_id |-> NoId,
                       status |-> "error", result |-> None]
    /\ UNCHANGED << asyncResult, beatVars >>

\* ------------------------------------------------------------ status query
READY_STATES == { "SUCCESS", "FAILURE" }

\* AsyncResult(task_id).status: the stored state, PENDING when the backend
\* holds nothing for the id.
\* Variant: an id without a stored result is reported as not found.
AsyncResult_status_notfound(s, task_id) ==
    IF task_id \in DOMAIN s THEN s[task_id].status ELSE "NOTFOUND"

AsyncResult_status(s, task_id) ==
    IF task_id \in DOMAIN s THEN s[task_id].status ELSE "PENDING"

AsyncResult_result(s, task_id) ==
    IF task_id \in DOMAIN s THEN s[task_id].result ELSE None

\* Variant: only SUCCESS counts as ready.
AsyncResult_ready_success_only(s, task_id) ==
    AsyncResult_status(s, task_id) = "SUCCESS"

AsyncResult_ready(s, task_id) ==
    AsyncResult_status(s, task_id) \in READY_STATES

QueryIds == 0..MaxTasks

\* Variant: reading a result also removes it from the backend.
get_task_status_forgets(task_id) ==
    /\ resp' = IF redisUp
                 THEN [op |-> "query", task_id |-> task_id,
                       status |-> AsyncResult_status(store, task_id),
                       result |-> IF AsyncResult_ready(store, task_id)
                                    THEN AsyncResult_result(store, task_id)
                                    ELSE None]
                 ELSE [op |-> "query", task_id |-> NoId,
                       status |-> "error", result |-> None]
    /\ store' = IF redisUp
                  THEN [t \in (DOMAIN store) \ {task_id} |-> store[t]]
                  ELSE store
    /\ UNCHANGED << redisUp, outages, queue, worker, nextId, sent,
                    ran, asyncResult, beatVars >>

\* GET /task/{task_id}, when no other process steps between the handler's
\* reads of the backend.
get_task_status(task_id) ==
    /\ resp' = IF redisUp
                 THEN [op |-> "query", task_id |-> task_id,
                       status |-> AsyncResult_status(store, task_id),
                       result |-> IF AsyncResult_ready(store, task_id)
                                    THEN AsyncResult_result(store, task_id)
                                    ELSE None]
                 ELSE [op |-> "query", task_id |-> NoId,
                       status |-> "error", result |-> None]
    /\ UNCHANGED << redisUp, outages, queue, store, worker, nextId, sent,
                    ran, asyncResult, beatVars >>

\* GET /task/{task_id} read by read.  The handler evaluates task.status,
\* then task.ready(), then task.result; each goes to the backend unless the
\* AsyncResult already holds a meta, and it keeps a meta only when the
\* state it read is a ready one.  Other processes may step between reads.
\* First read: task.status.
get_task_status_status(task_id) ==
    /\ asyncResult = NoRequest
    /\ IF redisUp
         THEN /\ asyncResult' =
                    [id |-> task_id,
                     status |-> AsyncResult_status(store, task_id),
                     cache |-> IF AsyncResult_ready(store, task_id)
                                 THEN store[task_id]
                                 ELSE None]
              /\ UNCHANGED resp
         ELSE /\ resp' = [op |-> "query", task_id |-> NoId,
                          status |-> "error", result |-> None]
              /\ UNCHANGED asyncResult
    /\ UNCHANGED << redisUp, outages, queue, store, worker, nextId, sent,
                    ran, beatVars >>

\* Second read: task.ready(), and task.result when it says so; the
\* response is returned.
get_task_status_result ==
    /\ asyncResult # NoRequest
    /\ resp' = IF asyncResult.cache # None
                 THEN [op |-> "query", task_id |-> asyncResult.id,
                       status |-> asyncResult.status,
                       result |-> asyncResult.cache.result]
                 ELSE IF redisUp
                   THEN [op |-> "query", task_id |-> asyncResult.id,
                         status |-> asyncResult.status,
                         result |-> IF AsyncResult_ready(store, asyncResult.id)
                                      THEN AsyncResult_result(store,
                                                              asyncResult.id)
                                      ELSE None]
                   ELSE [op |-> "query", task_id |-> NoId,
                         status |-> "error", result |-> None]
    /\ asyncResult' = NoRequest
    /\ UNCHANGED << redisUp, outages, queue, store, worker, nextId, sent,
                    ran, beatVars >>

\* ------------------------------------------------------------ workers
\* Variant: the message is left on the queue and is delivered again.
WorkerReceive_keeps_message(w) ==
    /\ redisUp
    /\ worker[w].state = "idle"
    /\ queue # << >>
    /\ Head(queue).task \in Registry
    /\ worker' = [worker EXCEPT ![w] = [state |-> "running",
                                        msg |-> Head(queue)]]
    /\ UNCHANGED << redisUp, outages, queue, store, nextId, sent, ran, resp, asyncResult,
                    beatVars >>

\* Variant: the pool runs one body at a time, so a worker takes a message
\* only while no other worker is inside a body.
WorkerReceive_one_at_a_time(w) ==
    /\ redisUp
    /\ \A v \in Workers : worker[v].state = "idle"
    /\ queue # << >>
    /\ Head(queue).task \in Registry
    /\ worker' = [worker EXCEPT ![w] = [state |-> "running",
                                        msg |-> Head(queue)]]
    /\ queue' = Tail(queue)
    /\ UNCHANGED << redisUp, outages, store, nextId, sent, ran, resp, asyncResult,
                    beatVars >>

\* A worker takes the oldest message off the queue.
WorkerReceive(w) ==
    /\ redisUp
    /\ worker[w].state = "idle"
    /\ queue # << >>
    /\ Head(queue).task \in Registry
    /\ worker' = [worker EXCEPT ![w] = [state |-> "running",
                                        msg |-> Head(queue)]]
    /\ queue' = Tail(queue)
    /\ UNCHANGED << redisUp, outages, store, nextId, sent, ran, resp, asyncResult,
                    beatVars >>

\* Variant: an exception raised by the body takes the worker down with it.
WorkerFinish_dies_on_raise(w, outcome) ==
    /\ redisUp
    /\ worker[w].state = "running"
    /\ store' = (worker[w].msg.id :>
                    [status |-> IF outcome = "return" THEN "SUCCESS"
                                                      ELSE "FAILURE",
                     result |-> IF outcome = "return"
                                  THEN RunBody(worker[w].msg, now)
                                  ELSE RaisedException(worker[w].msg)])
                 @@ store
    /\ ran' = (worker[w].msg.id :> outcome) @@ ran
    /\ worker' = [worker EXCEPT ![w] = IF outcome = "return"
                                         THEN Idle
                                         ELSE [state |-> "crashed"]]
    /\ UNCHANGED << redisUp, outages, queue, nextId, sent, resp, asyncResult, beatVars >>

\* The body returns or raises, and the worker stores the outcome in the
\* result backend: SUCCESS with the returned value, FAILURE with the
\* exception.
WorkerFinish(w, outcome) ==
    /\ redisUp
    /\ worker[w].state = "running"
    /\ store' = (worker[w].msg.id :>
                    [status |-> IF outcome = "return" THEN "SUCCESS"
                                                      ELSE "FAILURE",
                     result |-> IF outcome = "return"
                                  THEN RunBody(worker[w].msg, now)
                                  ELSE RaisedException(worker[w].msg)])
                 @@ store
    /\ ran' = (worker[w].msg.id :> outcome) @@ ran
    /\ worker' = [worker EXCEPT ![w] = Idle]
    /\ UNCHANGED << redisUp, outages, queue, nextId, sent, resp, asyncResult, beatVars >>

\* A stored result expires from the backend.
Expire(task_id) ==
    /\ task_id \in DOMAIN store
    /\ store' = [t \in (DOMAIN store) \ {task_id} |-> store[t]]
    /\ UNCHANGED << redisUp, outages, queue, worker, nextId, sent, ran,
                    resp, asyncResult, beatVars >>

\* ------------------------------------------------------------ beat
\* Variants: the period is taken as half, or as twice, the configured one.
remaining_estimate_half(last, t) == last + (beat_schedule.schedule \div 2) - t

remaining_estimate_double(last, t) == last + 2 * beat_schedule.schedule - t

\* Seconds until the entry is due again.
remaining_estimate(last, t) == last + beat_schedule.schedule - t

is_due(last, t) == remaining_estimate(last, t) <= 0

Min(a, b) == IF a <= b THEN a ELSE b

\* The beat loop sleeps until the entry is due, at most TickSeconds at once.
Tick ==
    /\ beatUp
    /\ ~is_due(last_run_at, now)
    /\ now' = now + Min(TickSeconds, remaining_estimate(last_run_at, now))
    /\ now' <= MaxTime
    /\ UNCHANGED << redisUp, outages, queue, store, worker, nextId, sent,
                    ran, resp, asyncResult, last_run_at, fired, beatUp, restart >>

\* Variant: the period restarts from the missed due time, so that every
\* missed interval is made up for.
beat_tick_catch_up ==
    /\ beatUp
    /\ is_due(last_run_at, now)
    /\ redisUp
    /\ delay(beat_schedule.task, None)
    /\ last_run_at' = last_run_at + beat_schedule.schedule
    /\ fired' = Append(fired, now)
    /\ UNCHANGED << resp, asyncResult, now, beatUp, restart >>

\* The entry is due: submit its task and restart its period.
beat_tick ==
    /\ beatUp
    /\ is_due(last_run_at, now)
    /\ redisUp
    /\ delay(beat_schedule.task, None)
    /\ last_run_at' = now
    /\ fired' = Append(fired, now)
    /\ UNCHANGED << resp, asyncResult, now, beatUp, restart >>

\* The beat process is stopped; the schedule entry keeps its last_run_at.
BeatStop ==
    /\ beatUp
    /\ beatUp' = FALSE
    /\ UNCHANGED << redisUp, outages, queue, store, worker, nextId, sent,
                    ran, resp, asyncResult, now, last_run_at, fired, restart >>

\* Time passes while beat is not running.
Downtime ==
    /\ ~beatUp
    /\ now' = now + TickSeconds
    /\ now' <= MaxTime
    /\ UNCHANGED << redisUp, outages, queue, store, worker, nextId, sent,
                    ran, resp, asyncResult, last_run_at, fired, beatUp, restart >>

\* The beat process is started again.
BeatStart ==
    /\ ~beatUp
    /\ beatUp' = TRUE
    /\ restart' = [at |-> now, overdue |-> now - last_run_at]
    /\ UNCHANGED << redisUp, outages, queue, store, worker, nextId, sent,
                    ran, resp, asyncResult, now, last_run_at, fired >>

\* ------------------------------------------------------------ specifications
Next ==
    \/ \E r \in TaskRequest : send_email(r)
    \/ \E d \in DataDicts : process_data(d)
    \/ \E t \in QueryIds : get_task_status(t)
    \/ \E w \in Workers : WorkerReceive(w)
    \/ \E w \in Workers, o \in {"return", "raise"} : WorkerFinish(w, o)
    \/ \E t \in DOMAIN store : Expire(t)
    \/ RedisDown
    \/ RedisRestore

Spec == Init /\ [][Next]_vars

\* Some worker keeps taking messages and finishing bodies, and Redis comes
\* back after an outage.
FairSpec ==
    /\ Spec
    /\ WF_vars(\E w \in Workers : WorkerReceive(w))
    /\ WF_vars(\E w \in Workers, o \in {"return", "raise"} : WorkerFinish(w, o))
    /\ WF_vars(RedisRestore)

BeatNext ==
    \/ Tick
    \/ beat_tick
    \/ \E t \in QueryIds : get_task_status(t)
    \/ \E w \in Workers : WorkerReceive(w)
    \/ \E w \in Workers, o \in {"return", "raise"} : WorkerFinish(w, o)
    \/ \E t \in DOMAIN store : Expire(t)

BeatSpec == Init /\ [][BeatNext]_vars

\* Beat with stops and restarts.
RestartNext ==
    \/ Tick
    \/ beat_tick
    \/ BeatStop
    \/ Downtime
    \/ BeatStart
    \/ \E w \in Workers : WorkerReceive(w)
    \/ \E w \in Workers, o \in {"return", "raise"} : WorkerFinish(w, o)

RestartSpec == Init /\ [][RestartNext]_vars

\* The status endpoint read by read, next to producers, workers, expiry and
\* Redis outages.
QueryNext ==
    \/ \E r \in TaskRequest : send_email(r)
    \/ \E d \in DataDicts : process_data(d)
    \/ \E t \in QueryIds : get_task_status_status(t)
    \/ get_task_status_result
    \/ \E w \in Workers : WorkerReceive(w)
    \/ \E w \in Workers, o \in {"return", "raise"} : WorkerFinish(w, o)
    \/ \E t \in DOMAIN store : Expire(t)
    \/ RedisDown
    \/ RedisRestore

QuerySpec == Init /\ [][QueryNext]_vars

\* ==================================================================
\* Properties
\* ==================================================================
Issued == DOMAIN sent

Rank(status) ==
    CASE status = "PENDING" -> 0
      [] status = "STARTED" -> 1
      [] status \in READY_STATES -> 2

C2_RecordExistsAtSubmit ==
    \A i \in 1..Len(queue) : queue[i].id \in DOMAIN store

\* C2 (amended): a query for a task id whose invocation is still on the
\* queue reports PENDING with a null result, never anything else; submit
\* writes no record, so the backend holds none for a queued invocation.
C2_QueryAfterSubmitIsPending ==
    /\ (resp.op = "query" /\ resp.status # "error" /\ resp.task_id \in QueueIds)
          => (resp.status = "PENDING" /\ resp.result = None)
    /\ \A i \in 1..Len(queue) : queue[i].id \notin DOMAIN store

C2_Witness ==
    /\ resp.op = "query"
    /\ resp.task_id \in QueueIds
    /\ resp.status = "PENDING"

\* C3 (as stated): a query for an id that submit never returned gets an
\* outcome other than PENDING, STARTED, SUCCESS and FAILURE.
C3_UnknownIsNotFound ==
    (resp.op = "query" /\ resp.status # "error" /\ resp.task_id \notin Issued)
        => resp.status \notin {"PENDING", "STARTED", "SUCCESS", "FAILURE"}

\* C3 (amended): a query for an id the backend holds nothing for (never
\* returned by submit, or expired) reports PENDING with a null result.
C3_UnknownIsPending ==
    [][(resp' # resp /\ resp'.op = "query" /\ resp'.status # "error"
            /\ resp'.task_id \notin DOMAIN store)
        => (resp'.status = "PENDING" /\ resp'.result = None)]_vars

\* A never-issued id was queried.
C3_Witness ==
    /\ resp.op = "query"
    /\ resp.status = "PENDING"
    /\ resp.result = None
    /\ resp.task_id = NonexistentId
    /\ Issued # {}

\* The same answer for an id whose stored result has expired.
C3_ExpiredQueried ==
    /\ resp.op = "query"
    /\ resp.status = "PENDING"
    /\ resp.task_id \in DOMAIN ran
    /\ resp.task_id \notin DOMAIN store
    /\ \A w \in Workers : worker[w].state = "idle"

\* The value the body of a message is documented to return.
ExpectedResult(msg, r) ==
    CASE msg.task = "tasks.send_email_task" ->
            r = [status |-> "sent", email |-> msg.args.email,
                 message |-> msg.args.message]
      [] msg.task = "tasks.process_data_task" ->
            /\ r.processed = TRUE
            /\ Len(r.input_keys) = Len(msg.args)
            /\ \A i \in 1..Len(msg.args) : r.input_keys[i] = msg.args[i][1]
      [] msg.task = "tasks.periodic_cleanup_task" ->
            r = [status |-> "completed", cleaned_items |-> 42]

FinishedWith(t, outcome) == t \in DOMAIN ran /\ ran[t] = outcome

\* C4: every submitted invocation (it is on the queue when submit returns)
\* whose body returns normally eventually has state SUCCESS, stored with the value the body returns for the
\* submitted arguments.
C4_EventuallySuccess ==
    \A t \in 1..MaxTasks :
        (t \in QueueIds) ~>
            \/ FinishedWith(t, "raise")
            \/ /\ t \in DOMAIN store
               /\ store[t].status = "SUCCESS"
               /\ ExpectedResult(sent[t], store[t].result)

C4_Witness ==
    \E t \in DOMAIN store :
        /\ FinishedWith(t, "return")
        /\ store[t].status = "SUCCESS"
        /\ sent[t].task = "tasks.send_email_task"
        /\ store[t].result.email = sent[t].args.email

\* C5 (as stated): a FAILURE reported by a query carries a null result.
C5_FailureHasNullResult ==
    (resp.op = "query" /\ resp.status = "FAILURE") => resp.result = None

\* C5 (amended): every submitted invocation whose body raises eventually
\* has state FAILURE, stored with the exception as its result; a query
\* that reports FAILURE returns that exception, not null, as the result.
C5_EventuallyFailure ==
    /\ \A t \in 1..MaxTasks :
          (t \in QueueIds) ~>
              \/ FinishedWith(t, "return")
              \/ /\ t \in DOMAIN store
                 /\ store[t].status = "FAILURE"
                 /\ store[t].result = [exc_type |-> "Exception",
                                       task |-> sent[t].task]
    /\ [](  (resp.op = "query" /\ resp.status = "FAILURE")
            => resp.result = [exc_type |-> "Exception",
                              task |-> sent[resp.task_id].task])

C5_Witness ==
    /\ resp.op = "query"
    /\ resp.status = "FAILURE"
    /\ FinishedWith(resp.task_id, "raise")
    /\ resp.result # None

\* A step of submit: delay() drew an id.
SubmitStep == nextId' # nextId

\* C7: a submit that fails on the publish returns an error and no task id,
\* and leaves no PENDING record behind: the backend holds either nothing or
\* a FAILURE record for the id it drew, and no record is ever PENDING with
\* no invocation on the queue.
C7_NoOrphanPending ==
    [][(SubmitStep /\ resp'.status = "error")
        => /\ resp'.task_id = NoId
           /\ nextId \notin Issued'
           /\ \/ nextId \notin DOMAIN store'
              \/ store'[nextId].status = "FAILURE"
           /\ \A t \in DOMAIN store' :
                  store'[t].status = "PENDING" => t \in QueueIds']_vars

C7_Witness ==
    /\ resp.op = "submit"
    /\ resp.status = "error"
    /\ resp.task_id = NoId
    /\ nextId - 1 \notin DOMAIN store
    /\ nextId - 1 \notin Issued

C9_SpacingAtLeastPeriod ==
    \A i \in 1..(Len(fired) - 1) : fired[i + 1] - fired[i] >= 86400

C9_Witness ==
    /\ Len(fired) >= 2
    /\ fired[2] - fired[1] = 86400

\* Window ends at which a count can change: the start, the present, and
\* each firing with the seconds around it.
Instants ==
    ({0, now} \cup { fired[i] + d : i \in 1..Len(fired), d \in {-1, 0, 1} })
        \cap (0..now)

SubmissionsIn(a, b) ==
    Cardinality({ i \in 1..Len(fired) : a <= fired[i] /\ fired[i] <= b })

\* C10: over any window [a, b] of the running scheduler the number of
\* submissions differs from (b - a) / period by at most one.
C10_CountWithinOne ==
    \A a, b \in Instants :
        a <= b =>
            /\ SubmissionsIn(a, b) * 86400 <= (b - a) + 86400
            /\ SubmissionsIn(a, b) * 86400 >= (b - a) - 86400

C10_Witness ==
    /\ Len(fired) >= 3
    /\ SubmissionsIn(0, now) = 3
    /\ now = 3 * 86400

\* Submissions of the entry made since beat was last started.
SinceRestart == { i \in 1..Len(fired) : fired[i] >= restart.at }

\* C11: when beat is started after the entry has gone two or more periods
\* without firing, the entry is submitted once, at the first tick after the
\* start (no time passes before it), not once per missed period, and the
\* later submissions follow that one at the period's spacing.
C11_NoCatchUp ==
    (restart.at >= 0 /\ restart.overdue >= 2 * 86400) =>
        /\ (beatUp /\ SinceRestart = {}) => now = restart.at
        /\ Cardinality({ i \in SinceRestart : fired[i] < restart.at + 86400 })
              <= 1
        /\ \A i \in SinceRestart :
              \E k \in 0..Len(fired) : fired[i] = restart.at + k * 86400
        /\ \A i, j \in SinceRestart : i < j => fired[j] - fired[i] >= 86400

C11_Witness ==
    /\ restart.at >= 0
    /\ restart.overdue >= 2 * 86400
    /\ Cardinality(SinceRestart) = 2
    /\ fired[Len(fired)] = restart.at + 86400

\* A step that answers a status query.
QueryStep == resp' # resp /\ resp'.op = "query"

HeldBy(w) == IF worker[w].state = "running" THEN {worker[w].msg.id} ELSE {}

\* C14: each enqueued invocation is handed to exactly one worker.  No two
\* workers hold the same invocation, an invocation a worker holds or has
\* finished is no longer on the queue, the queue holds no invocation
\* twice, and a worker only ever finishes a body that has not run before.
C14_HandedToOneWorker ==
    /\ [](/\ \A w1, w2 \in Workers :
                w1 # w2 => HeldBy(w1) \cap HeldBy(w2) = {}
           /\ \A w \in Workers :
                HeldBy(w) \cap (QueueIds \cup DOMAIN ran) = {}
           /\ QueueIds \cap DOMAIN ran = {}
           /\ \A i, j \in 1..Len(queue) :
                queue[i].id = queue[j].id => i = j)
    /\ [][\A w \in Workers :
            (HeldBy(w) # {} /\ HeldBy(w)' = {})
                => /\ HeldBy(w) \cap DOMAIN ran = {}
                   /\ HeldBy(w) \subseteq DOMAIN ran']_vars

\* Two workers are inside bodies at once, each with its own invocation.
C14_Witness ==
    \E w1, w2 \in Workers :
        /\ w1 # w2
        /\ HeldBy(w1) # {}
        /\ HeldBy(w2) # {}
        /\ HeldBy(w1) # HeldBy(w2)
        /\ queue = << >>

\* Some body has raised and its FAILURE has been recorded.
FailureRecorded == \E t \in DOMAIN ran : ran[t] = "raise"

C16_OnlyItsWorkerIsBusy ==
    /\ [](\A w1, w2 \in Workers :
            (w1 # w2 /\ worker[w1].state = "running" /\ redisUp)
                => /\ (worker[w2].state = "idle" /\ queue # << >>)
                        => ENABLED WorkerReceive(w2)
                   /\ worker[w2].state = "running"
                        => /\ ENABLED WorkerFinish(w2, "return")
                           /\ ENABLED WorkerFinish(w2, "raise"))
    /\ [][\A w1, w2 \in Workers :
            (w1 # w2 /\ worker[w2]' # worker[w2])
                => worker[w1]' = worker[w1]]_vars

\* One worker is still inside the body of the first invocation while the
\* second invocation, taken off the queue after it, already has its
\* terminal record.
C16_Witness ==
    \E w \in Workers, u \in DOMAIN store :
        /\ worker[w].state = "running"
        /\ worker[w].msg.id < u
        /\ worker[w].msg.id \notin DOMAIN ran
        /\ u \in DOMAIN ran
        /\ store[u].status \in READY_STATES

\* The status endpoint returns a response.
RespondStep ==
    /\ asyncResult # NoRequest
    /\ asyncResult' = NoRequest
    /\ resp'.status # "error"

\* C18: the status endpoint exposes a result only for finished tasks.  The
\* status in the response is the state the backend held when the handler
\* read it (PENDING for an id with no record), the result is null whenever
\* that status is not SUCCESS or FAILURE, and it is the stored result when
\* the status is SUCCESS or FAILURE.
C18_ResultOnlyWhenTerminal ==
    /\ [][(asyncResult = NoRequest /\ asyncResult' # NoRequest)
            => asyncResult'.status = AsyncResult_status(store, asyncResult'.id)
       ]_vars
    /\ [][RespondStep
            => /\ resp'.task_id = asyncResult.id
               /\ resp'.status = asyncResult.status
               /\ resp'.status \notin READY_STATES => resp'.result = None
               /\ resp'.status \in READY_STATES
                    => resp'.result = asyncResult.cache.result]_vars

\* The part of C18 that the handler keeps whatever happens between its
\* reads: the status is the state read first, and a response whose status
\* is SUCCESS or FAILURE carries the result stored with that state.
C18_TerminalStatusHasItsResult ==
    /\ [][(asyncResult = NoRequest /\ asyncResult' # NoRequest)
            => asyncResult'.status = AsyncResult_status(store, asyncResult'.id)
       ]_vars
    /\ [][RespondStep
            => /\ resp'.task_id = asyncResult.id
               /\ resp'.status = asyncResult.status
               /\ resp'.status \in READY_STATES
                    => resp'.result = asyncResult.cache.result]_vars

\* A response that says PENDING and carries a result: the worker stored the
\* outcome after the handler read the status and before it asked ready().
C18_PendingWithResult ==
    /\ resp.op = "query"
    /\ resp.status = "PENDING"
    /\ resp.result # None
    /\ resp.task_id \in DOMAIN ran

TypeOK ==
    /\ redisUp \in BOOLEAN
    /\ outages \in 0..MaxOutages
    /\ nextId \in Nat \ {0}
    /\ DOMAIN sent \subseteq 1..(nextId - 1)
    /\ DOMAIN store \subseteq DOMAIN ran
    /\ DOMAIN ran \subseteq DOMAIN sent
    /\ now \in 0..MaxTime
    /\ asyncResult.id \in QueryIds \cup {NoId}
====
